---- MODULE Spec2Model ----
(***************************************************************************)
(* Model of script.js: the storage adapter (window.cartStorage) with its   *)
(* in-memory fallback, the cart handlers of the gallery page (add, view,   *)
(* clear, process order), the newsletter form and the feedback form.       *)
(*                                                                         *)
(* Representation.                                                         *)
(*  - A JavaScript string is a sequence of tokens; a token is a TLA+       *)
(*    string, usually one character ("a", "@", " "), and a literal of the  *)
(*    script that is never taken apart is one token.                       *)
(*  - A JavaScript number is an integer count of thousandths (1.25 is      *)
(*    1250, the quantity 2 is 2000), so prices with up to three decimals   *)
(*    and their products with whole quantities are exact.                  *)
(*  - A JavaScript object with own keys in insertion order (the cart) is a *)
(*    sequence of records, one per key, in that order.                     *)
(*  - Every click or submit handler runs to completion (the event loop is  *)
(*    single threaded), so each handler is one action.                     *)
(***************************************************************************)
EXTENDS Integers, Sequences, FiniteSets, TLC

------------------------------------------------------------------------------
(* Bounds of the model *)

\* largest quantity of one item the add-to-cart action is explored up to
MaxQty == 2
\* longest e-mail text typed in SpecEmail
MaxLen == 4

------------------------------------------------------------------------------
(* Strings and numbers *)

\* the value null
Null == <<"<null>">>

\* one whole number as the number of thousandths that stands for it
Num(n) == n * 1000

Digits == <<"0", "1", "2", "3", "4", "5", "6", "7", "8", "9">>

IsDigit(tok) == \E i \in 1..10 : Digits[i] = tok

DigitValue(tok) == (CHOOSE i \in 1..10 : Digits[i] = tok) - 1

\* decimal digits of a natural number, no leading zeros
RECURSIVE NatText(_)
NatText(n) == IF n < 10 THEN <<Digits[n + 1]>>
              ELSE NatText(n \div 10) \o <<Digits[(n % 10) + 1]>>

\* value of a sequence of digits
RECURSIVE DigitsValue(_)
DigitsValue(ds) == IF ds = <<>> THEN 0
                   ELSE 10 * DigitsValue(SubSeq(ds, 1, Len(ds) - 1))
                        + DigitValue(ds[Len(ds)])

\* a sequence without its trailing "0" tokens
RECURSIVE StripZeros(_)
StripZeros(ds) == IF ds # <<>> /\ ds[Len(ds)] = "0"
                  THEN StripZeros(SubSeq(ds, 1, Len(ds) - 1))
                  ELSE ds

\* Number to string (String(n), n + '', JSON.stringify of a number): the whole
\* part, then "." and the decimals that are not trailing zeros
NumText(x) ==
    LET whole == x \div 1000
        frac  == x % 1000
        three == <<Digits[(frac \div 100) + 1], Digits[((frac \div 10) % 10) + 1],
                   Digits[(frac % 10) + 1]>>
    IN  IF frac = 0 THEN NatText(whole)
        ELSE NatText(whole) \o <<".">> \o StripZeros(three)

\* least index >= from at which tok stands in s, or Len(s) + 1
RECURSIVE IndexOf(_, _, _)
IndexOf(s, tok, from) ==
    IF from > Len(s) THEN Len(s) + 1
    ELSE IF s[from] = tok THEN from
    ELSE IndexOf(s, tok, from + 1)

\* String to number (parseFloat of a decimal literal, JSON.parse of a number):
\* digits, then optionally "." and up to three digits
ParseNum(t) ==
    LET dot   == IndexOf(t, ".", 1)
        whole == SubSeq(t, 1, dot - 1)
        frac  == SubSeq(t, dot + 1, Len(t))
        pad   == frac \o SubSeq(<<"0", "0", "0">>, 1, 3 - Len(frac))
    IN  1000 * DigitsValue(whole) + DigitsValue(pad)

\* Number.prototype.toFixed(2): the integer n for which n / 100 - x is as
\* close to zero as possible, the larger n when there are two; printed with
\* two decimals
ToFixed2(x) ==
    LET n == (x + 5) \div 10
    IN  NatText(n \div 100) \o <<".", Digits[((n \div 10) % 10) + 1], Digits[(n % 10) + 1]>>

\* String.prototype.trim
RECURSIVE TrimLeft(_)
TrimLeft(s) == IF s # <<>> /\ s[1] = " " THEN TrimLeft(Tail(s)) ELSE s

RECURSIVE TrimRight(_)
TrimRight(s) == IF s # <<>> /\ s[Len(s)] = " "
                THEN TrimRight(SubSeq(s, 1, Len(s) - 1)) ELSE s

Trim(s) == TrimRight(TrimLeft(s))

\* String.prototype.includes for a one-token needle
Includes(s, tok) == \E i \in 1..Len(s) : s[i] = tok

\* String.prototype.split for a one-token separator: the pieces between the
\* separators, empty pieces included
RECURSIVE Split(_, _)
Split(s, sep) ==
    LET i == IndexOf(s, sep, 1)
    IN  IF i > Len(s) THEN <<s>>
        ELSE <<SubSeq(s, 1, i - 1)>> \o Split(SubSeq(s, i + 1, Len(s)), sep)

\* Array.prototype.join
RECURSIVE Join(_, _)
Join(parts, sep) ==
    IF parts = <<>> THEN <<>>
    ELSE IF Len(parts) = 1 THEN parts[1]
    ELSE parts[1] \o sep \o Join(Tail(parts), sep)

------------------------------------------------------------------------------
(* JSON.stringify and JSON.parse, for the two shapes the script stores *)

Quote(s) == <<"\"">> \o s \o <<"\"">>

\* JSON.stringify of one cart item {name, price, quantity}
ItemJSON(item) ==
    <<"{">> \o Quote(<<"name">>) \o <<":">> \o Quote(item.name) \o <<",">>
            \o Quote(<<"price">>) \o <<":">> \o NumText(item.price) \o <<",">>
            \o Quote(<<"quantity">>) \o <<":">> \o NumText(item.quantity) \o <<"}">>

\* JSON.stringify of the cart object: its own keys in order, each with its item
StringifyCart(cartItems) ==
    <<"{">>
    \o Join([i \in 1..Len(cartItems) |->
                Quote(cartItems[i].id) \o <<":">> \o ItemJSON(cartItems[i])], <<",">>)
    \o <<"}">>

\* JSON.stringify of the customerData object of the feedback form
StringifyCustomer(c) ==
    <<"{">> \o Quote(<<"name">>) \o <<":">> \o Quote(c.name) \o <<",">>
            \o Quote(<<"email">>) \o <<":">> \o Quote(c.email) \o <<",">>
            \o Quote(<<"phone">>) \o <<":">> \o Quote(c.phone) \o <<",">>
            \o Quote(<<"lastMessage">>) \o <<":">> \o Quote(c.lastMessage) \o <<",">>
            \o Quote(<<"timestamp">>) \o <<":">> \o Quote(c.timestamp) \o <<"}">>

\* first index >= pos whose token is neither a digit nor "."
RECURSIVE NumberEnd(_, _)
NumberEnd(t, pos) ==
    IF pos <= Len(t) /\ (IsDigit(t[pos]) \/ t[pos] = ".") THEN NumberEnd(t, pos + 1)
    ELSE pos

\* The members of a flat JSON object whose first member (or closing brace) is
\* at pos: the keys with their values as text, and the index after the brace
RECURSIVE ParseMembers(_, _)
ParseMembers(t, pos) ==
    IF t[pos] = "}" THEN [members |-> <<>>, next |-> pos + 1]
    ELSE IF t[pos] = "," THEN ParseMembers(t, pos + 1)
    ELSE LET keyEnd == IndexOf(t, "\"", pos + 1)
             key    == SubSeq(t, pos + 1, keyEnd - 1)
             vpos   == keyEnd + 2
             isStr  == t[vpos] = "\""
             vEnd   == IF isStr THEN IndexOf(t, "\"", vpos + 1) + 1 ELSE NumberEnd(t, vpos)
             text   == IF isStr THEN SubSeq(t, vpos + 1, vEnd - 2) ELSE SubSeq(t, vpos, vEnd - 1)
             rest   == ParseMembers(t, vEnd)
         IN  [members |-> <<[key |-> key, text |-> text]>> \o rest.members,
              next |-> rest.next]

\* the text of member key, or Null when the object has no such member
Member(members, key) ==
    IF \E i \in 1..Len(members) : members[i].key = key
    THEN members[CHOOSE i \in 1..Len(members) : members[i].key = key].text
    ELSE Null

\* The entries of the cart object whose first key (or closing brace) is at pos
RECURSIVE ParseCartEntries(_, _)
ParseCartEntries(t, pos) ==
    IF t[pos] = "}" THEN <<>>
    ELSE IF t[pos] = "," THEN ParseCartEntries(t, pos + 1)
    ELSE LET keyEnd == IndexOf(t, "\"", pos + 1)
             id     == SubSeq(t, pos + 1, keyEnd - 1)
             obj    == ParseMembers(t, keyEnd + 3)
         IN  <<[id |-> id,
                name |-> Member(obj.members, <<"name">>),
                price |-> ParseNum(Member(obj.members, <<"price">>)),
                quantity |-> ParseNum(Member(obj.members, <<"quantity">>))]>>
             \o ParseCartEntries(t, obj.next)

\* JSON.parse of a stored cart
ParseCart(t) == ParseCartEntries(t, 2)

\* JSON.parse of a stored customerData record
ParseCustomer(t) ==
    LET m == ParseMembers(t, 2).members
    IN  [name |-> Member(m, <<"name">>), email |-> Member(m, <<"email">>),
         phone |-> Member(m, <<"phone">>), lastMessage |-> Member(m, <<"lastMessage">>),
         timestamp |-> Member(m, <<"timestamp">>)]

------------------------------------------------------------------------------
(* State *)

VARIABLES
    sessionMode,     \* how window.sessionStorage answers a call now: "ok",
                     \* "quota" (setItem throws) or "denied" (every call throws)
    localMode,       \* the same for window.localStorage
    sessionStorage,  \* contents of window.sessionStorage: key -> string or Null
    localStorage,    \* contents of window.localStorage: key -> string or Null
    useSession,      \* TRUE: useSession is window.sessionStorage; FALSE: it is null
    useLocal,        \* TRUE: useLocal is window.localStorage; FALSE: it is null
    fallback,        \* the fallback object: [_session, _local], key -> string or Null
    form,            \* values of the input elements of the two forms
          \* the alert boxes in document.body, oldest first: their timeouts
    last,            \* the handler that ran last: its name, whether it ended in an
                     \* uncaught exception, the messages it showed, a value it returned
    adds,            \* per item id: add-to-cart actions since the id was last absent
    written          \* per scope and key: the string a handler of the page last stored
                     \* since the page loaded, Null once removed and when never stored

vars == <<sessionMode, localMode, sessionStorage, localStorage, useSession, useLocal,
          fallback, form, last, adds, written>>

env    == <<sessionMode, localMode>>
stores == <<sessionStorage, localStorage, fallback>>

Modes == {"ok", "quota", "denied"}

testKey == "__storage_test__"

\* the keys of the script, and a key of other callers of the adapter
Keys == {"cartItems", "customerData", testKey, "note"}

EmptyStore == [k \in Keys |-> Null]

\* A JavaScript value handed to the adapter: a string or a number
StrVal(s) == [t |-> "string", s |-> s, n |-> 0]
NumVal(n) == [t |-> "number", s |-> <<>>, n |-> n]

\* String(v)
String(v) == IF v.t = "string" THEN v.s ELSE NumText(v.n)

\* whether Storage.setItem / getItem / removeItem / clear throws in mode m
SetItemThrows(m) == m # "ok"
ReadThrows(m)    == m = "denied"

\* fault variant: a probe that reports every store as available
isStorageAvailableUncaught(m) == TRUE

\* isStorageAvailable(type), for a store that answers in mode m: setItem then
\* removeItem of the test key; true unless one of them throws
isStorageAvailable(m) == ~SetItemThrows(m) /\ ~ReadThrows(m)

\* what the probe leaves in a store of contents c that answers in mode m
AfterProbe(m, c) == IF isStorageAvailable(m) THEN [c EXCEPT ![testKey] = Null] ELSE c

\* The fallback object's methods, on one of its two maps
fallbackSet(map, k, v) == [map EXCEPT ![k] = String(v)]
fallbackGet(map, k) == map[k]
fallbackRemove(map, k) == [map EXCEPT ![k] = Null]
fallbackClear(map) == EmptyStore

\* The adapter's operations. Each gives [threw, real, fb, value]: whether the
\* call threw, the real store and the fallback map after it, and what it returned
Outcome(threw, real, fb, value) ==
    [threw |-> threw, real |-> real, fb |-> fb, value |-> value]

AdapterSet(use, mode, real, fb, key, value) ==
    IF use
    THEN IF SetItemThrows(mode) THEN Outcome(TRUE, real, fb, Null)
         ELSE Outcome(FALSE, [real EXCEPT ![key] = String(value)], fb, Null)
    ELSE Outcome(FALSE, real, fallbackSet(fb, key, value), Null)

AdapterGet(use, mode, real, fb, key) ==
    IF use
    THEN IF ReadThrows(mode) THEN Outcome(TRUE, real, fb, Null)
         ELSE Outcome(FALSE, real, fb, real[key])
    ELSE Outcome(FALSE, real, fb, fallbackGet(fb, key))

\* fault variant: removing a key stores an empty object under it
AdapterRemoveStoresEmpty(use, mode, real, fb, key) ==
    IF use
    THEN IF ReadThrows(mode) THEN Outcome(TRUE, real, fb, Null)
         ELSE Outcome(FALSE, [real EXCEPT ![key] = <<"{", "}">>], fb, Null)
    ELSE Outcome(FALSE, real, [fb EXCEPT ![key] = <<"{", "}">>], Null)

AdapterRemove(use, mode, real, fb, key) ==
    IF use
    THEN IF ReadThrows(mode) THEN Outcome(TRUE, real, fb, Null)
         ELSE Outcome(FALSE, [real EXCEPT ![key] = Null], fb, Null)
    ELSE Outcome(FALSE, real, fallbackRemove(fb, key), Null)

AdapterClear(use, mode, real, fb) ==
    IF use
    THEN IF ReadThrows(mode) THEN Outcome(TRUE, real, fb, Null)
         ELSE Outcome(FALSE, EmptyStore, fb, Null)
    ELSE Outcome(FALSE, real, fallbackClear(fb), Null)

setSessionItem(key, value) ==
    AdapterSet(useSession, sessionMode, sessionStorage, fallback._session, key, value)
getSessionItem(key) ==
    AdapterGet(useSession, sessionMode, sessionStorage, fallback._session, key)
removeSessionItem(key) ==
    AdapterRemove(useSession, sessionMode, sessionStorage, fallback._session, key)
clearSession ==
    AdapterClear(useSession, sessionMode, sessionStorage, fallback._session)
setLocalItem(key, value) ==
    AdapterSet(useLocal, localMode, localStorage, fallback._local, key, value)
getLocalItem(key) ==
    AdapterGet(useLocal, localMode, localStorage, fallback._local, key)
removeLocalItem(key) ==
    AdapterRemove(useLocal, localMode, localStorage, fallback._local, key)

------------------------------------------------------------------------------
(* The page *)

\* the add-to-cart buttons of the gallery: data-id, data-name, data-price
Buttons ==
    { [id |-> <<"p", "1">>, name |-> <<"Apple">>, price |-> <<"1", ".", "2", "5">>],
      [id |-> <<"p", "2">>, name |-> <<"Pear">>, price |-> <<"0", ".", "3", "3", "4">>] }

ItemIds == {b.id : b \in Buttons}

EmptyForm == [newsletterEmail |-> <<>>, name |-> <<>>, email |-> <<>>,
              phone |-> <<>>, message |-> <<>>]

\* a string in a condition: null and '' are false
Truthy(s) == s # Null /\ s # <<>>

\* a || ''
OrEmpty(s) == IF Truthy(s) THEN s ELSE <<>>

\* showCustomAlert(message), as the messages shown so far by the handler that
\* calls it; the alert box and the timer that removes it change nothing a
\* handler reads and are left out
showCustomAlert(shown, message) == Append(shown, message)

\* what a handler leaves in last
Ran(handler, threw, shown) ==
    [handler |-> handler, threw |-> threw, shown |-> shown, value |-> Null]

\* the fallback object with its session map replaced
WithSession(fb) == [fallback EXCEPT !._session = fb]
WithLocal(fb)   == [fallback EXCEPT !._local = fb]

\* getCartFromSession(), given what getSessionItem returned
CartOf(cartData) == IF Truthy(cartData) THEN ParseCart(cartData) ELSE <<>>

\* cartItems[itemId] is there
HasItem(cartItems, itemId) == \E i \in 1..Len(cartItems) : cartItems[i].id = itemId

ItemIndex(cartItems, itemId) == CHOOSE i \in 1..Len(cartItems) : cartItems[i].id = itemId

\* Object.keys(cartItems)
ObjectKeys(cartItems) == [i \in 1..Len(cartItems) |-> cartItems[i].id]

\* fault variant: an item that is there is stored again with quantity 1
AddItemOverwrites(cartItems, itemId, itemName, itemPrice) ==
    IF HasItem(cartItems, itemId)
    THEN [cartItems EXCEPT ![ItemIndex(cartItems, itemId)].quantity = Num(1)]
    ELSE Append(cartItems, [id |-> itemId, name |-> itemName, price |-> itemPrice,
                            quantity |-> Num(1)])

\* fault variant: a new entry starts with quantity 0
AddItemStartsAtZero(cartItems, itemId, itemName, itemPrice) ==
    IF HasItem(cartItems, itemId)
    THEN [cartItems EXCEPT ![ItemIndex(cartItems, itemId)].quantity = @ + Num(1)]
    ELSE Append(cartItems, [id |-> itemId, name |-> itemName, price |-> itemPrice,
                            quantity |-> Num(0)])

\* The add-to-cart handler's update of the cart: one more of an item that is
\* there, a new entry with quantity 1 otherwise
AddItem(cartItems, itemId, itemName, itemPrice) ==
    IF HasItem(cartItems, itemId)
    THEN [cartItems EXCEPT ![ItemIndex(cartItems, itemId)].quantity = @ + Num(1)]
    ELSE Append(cartItems, [id |-> itemId, name |-> itemName, price |-> itemPrice,
                            quantity |-> Num(1)])

\* price * quantity of one item
ItemTotal(item) == (item.price * item.quantity) \div 1000

\* fault variant: the total adds up the prices, not price * quantity
RECURSIVE TotalPriceOfOneEach(_, _)
TotalPriceOfOneEach(cartItems, n) ==
    IF n = 0 THEN 0 ELSE TotalPriceOfOneEach(cartItems, n - 1) + cartItems[n].price

\* the view handler's totalPrice after the first n items
RECURSIVE TotalPrice(_, _)
TotalPrice(cartItems, n) ==
    IF n = 0 THEN 0 ELSE TotalPrice(cartItems, n - 1) + ItemTotal(cartItems[n])

\* one line of the cart message
CartItemString(item) ==
    item.name \o <<" (x">> \o NumText(item.quantity) \o <<") - $">>
    \o ToFixed2(ItemTotal(item))

\* the message of the view handler for a cart that is not empty
CartMessage(cartItems) ==
    <<"Cart Contents:\n\n">>
    \o Join([i \in 1..Len(cartItems) |-> CartItemString(cartItems[i])], <<"\n">>)
    \o <<"\n\nTotal: $">>
    \o ToFixed2(TotalPrice(cartItems, Len(cartItems)))

\* fault variant: the order counts the entries, not their quantities
TotalItemsCountsEntries(cartItems, n) == Num(n)

\* the process-order handler's totalItems after the first n items
RECURSIVE TotalItems(_, _)
TotalItems(cartItems, n) ==
    IF n = 0 THEN 0 ELSE TotalItems(cartItems, n - 1) + cartItems[n].quantity

OrderMessage(cartItems) ==
    <<"Order processed successfully! ">> \o NumText(TotalItems(cartItems, Len(cartItems)))
    \o <<" item(s) ordered.">>

NoAdds == [id \in ItemIds |-> 0]

------------------------------------------------------------------------------
(* Cart handlers *)

\* click on an add-to-cart button b
AddToCart(b) ==
    /\ adds[b.id] < MaxQty
    /\ LET got == getSessionItem("cartItems")
           cartItems == AddItem(CartOf(got.value), b.id, b.name, ParseNum(b.price))
           put == setSessionItem("cartItems", StrVal(StringifyCart(cartItems)))
       IN  IF got.threw \/ put.threw
           THEN /\ last' = Ran("addToCart", TRUE, <<>>)
                /\ UNCHANGED <<sessionStorage, fallback, written>>
           ELSE /\ sessionStorage' = put.real
                /\ fallback' = WithSession(put.fb)
                /\ written' = [written EXCEPT !.session["cartItems"] = StringifyCart(cartItems)]
                /\ last' = Ran("addToCart", FALSE, showCustomAlert(<<>>, <<"Item added to cart!">>))
    /\ adds' = [adds EXCEPT ![b.id] = @ + 1]
    /\ UNCHANGED <<env, localStorage, useSession, useLocal, form>>

\* click on the view-cart button
ViewCart ==
    /\ LET got == getSessionItem("cartItems")
           cartItems == CartOf(got.value)
           message == IF Len(ObjectKeys(cartItems)) = 0 THEN <<"Your cart is empty">>
                      ELSE CartMessage(cartItems)
       IN  IF got.threw
           THEN /\ last' = Ran("viewCart", TRUE, <<>>)
           ELSE /\ last' = Ran("viewCart", FALSE, showCustomAlert(<<>>, message))
    /\ UNCHANGED <<env, stores, useSession, useLocal, form, adds, written>>

\* click on the clear-cart button
ClearCart ==
    /\ LET got == getSessionItem("cartItems")
           cartItems == CartOf(got.value)
           del == removeSessionItem("cartItems")
       IN  IF got.threw
           THEN /\ last' = Ran("clearCart", TRUE, <<>>)
                /\ UNCHANGED <<sessionStorage, fallback, adds, written>>
           ELSE IF Len(ObjectKeys(cartItems)) = 0
           THEN /\ last' = Ran("clearCart", FALSE, showCustomAlert(<<>>, <<"No items to clear">>))
                /\ UNCHANGED <<sessionStorage, fallback, adds, written>>
           ELSE IF del.threw
           THEN /\ last' = Ran("clearCart", TRUE, <<>>)
                /\ UNCHANGED <<sessionStorage, fallback, adds, written>>
           ELSE /\ sessionStorage' = del.real
                /\ fallback' = WithSession(del.fb)
                /\ written' = [written EXCEPT !.session["cartItems"] = Null]
                /\ last' = Ran("clearCart", FALSE, showCustomAlert(<<>>, <<"Cart has been cleared!">>))
                /\ adds' = NoAdds
    /\ UNCHANGED <<env, localStorage, useSession, useLocal, form>>

\* click on the process-order button: the confirmation is shown before the
\* cart is removed
ProcessOrder ==
    /\ LET got == getSessionItem("cartItems")
           cartItems == CartOf(got.value)
           del == removeSessionItem("cartItems")
       IN  IF got.threw
           THEN /\ last' = Ran("processOrder", TRUE, <<>>)
                /\ UNCHANGED <<sessionStorage, fallback, adds, written>>
           ELSE IF Len(ObjectKeys(cartItems)) > 0
           THEN /\ last' = Ran("processOrder", del.threw, showCustomAlert(<<>>, OrderMessage(cartItems)))
                /\ sessionStorage' = del.real
                /\ fallback' = WithSession(del.fb)
                /\ adds' = IF del.threw THEN adds ELSE NoAdds
                /\ written' = IF del.threw THEN written
                              ELSE [written EXCEPT !.session["cartItems"] = Null]
           ELSE /\ last' = Ran("processOrder", FALSE, showCustomAlert(<<>>, <<"No items in cart">>))
                /\ UNCHANGED <<sessionStorage, fallback, adds, written>>
    /\ UNCHANGED <<env, localStorage, useSession, useLocal, form>>

------------------------------------------------------------------------------
(* Forms *)

\* fault variant: any number of "@" passes when text stands before the first
\* and after the last
NewsletterCheckAnyParts(email) ==
    IF email = <<>> THEN <<"Please enter an email address.">>
    ELSE IF ~Includes(email, "@") THEN <<"Please include a \"@\" in the email address.">>
    ELSE LET emailParts == Split(email, "@")
         IN  IF emailParts[1] = <<>> \/ emailParts[Len(emailParts)] = <<>>
             THEN <<"Please enter a valid email address.">>
             ELSE Null

\* The newsletter handler's checks of the trimmed e-mail: the message of the
\* first check that fails, Null when all pass
NewsletterCheck(email) ==
    IF email = <<>> THEN <<"Please enter an email address.">>
    ELSE IF ~Includes(email, "@") THEN <<"Please include a \"@\" in the email address.">>
    ELSE LET emailParts == Split(email, "@")
         IN  IF Len(emailParts) # 2 \/ emailParts[1] = <<>> \/ emailParts[2] = <<>>
             THEN <<"Please enter a valid email address.">>
             ELSE Null

\* fault variant: every presence check comes before the checks of the e-mail
FeedbackCheckPresenceFirst(name, email, message) ==
    IF name = <<>> THEN <<"Please enter your name.">>
    ELSE IF email = <<>> THEN <<"Please enter your email address.">>
    ELSE IF message = <<>> THEN <<"Please enter your issue/order information.">>
    ELSE IF ~Includes(email, "@") THEN <<"Please include a \"@\" in the email address.">>
    ELSE LET emailParts == Split(email, "@")
         IN  IF Len(emailParts) # 2 \/ emailParts[1] = <<>> \/ emailParts[2] = <<>>
             THEN <<"Please enter a valid email address.">>
             ELSE Null

\* fault variant: the message is not required
FeedbackCheckNoMessage(name, email, message) ==
    IF name = <<>> THEN <<"Please enter your name.">>
    ELSE IF email = <<>> THEN <<"Please enter your email address.">>
    ELSE IF ~Includes(email, "@") THEN <<"Please include a \"@\" in the email address.">>
    ELSE LET emailParts == Split(email, "@")
         IN  IF Len(emailParts) # 2 \/ emailParts[1] = <<>> \/ emailParts[2] = <<>>
             THEN <<"Please enter a valid email address.">>
             ELSE Null

\* The feedback handler's checks of the trimmed fields, in the handler's order
FeedbackCheck(name, email, message) ==
    IF name = <<>> THEN <<"Please enter your name.">>
    ELSE IF email = <<>> THEN <<"Please enter your email address.">>
    ELSE IF ~Includes(email, "@") THEN <<"Please include a \"@\" in the email address.">>
    ELSE LET emailParts == Split(email, "@")
         IN  IF Len(emailParts) # 2 \/ emailParts[1] = <<>> \/ emailParts[2] = <<>>
             THEN <<"Please enter a valid email address.">>
             ELSE IF message = <<>> THEN <<"Please enter your issue/order information.">>
             ELSE Null

\* new Date().toISOString(): what the clock may say (nothing reads it back)
Timestamps == { <<"2026-01-01T00:00:00.000Z">> }

\* submit of the newsletter form whose fields hold f
NewsletterHandler(f) ==
    /\ LET email == Trim(f.newsletterEmail)
           failed == NewsletterCheck(email)
           done == <<"You are now subscribed to our newsletter with email: ">> \o email
       IN  IF failed # Null
           THEN /\ last' = Ran("newsletter", FALSE, showCustomAlert(<<>>, failed))
                /\ form' = f
           ELSE /\ last' = Ran("newsletter", FALSE, showCustomAlert(<<>>, done))
                /\ form' = [f EXCEPT !.newsletterEmail = <<>>]
    /\ UNCHANGED <<env, stores, useSession, useLocal, adds, written>>

\* submit of the feedback form whose fields hold f
FeedbackHandler(f) ==
    /\ LET name == Trim(f.name)
           email == Trim(f.email)
           phone == Trim(f.phone)
           message == Trim(f.message)
           failed == FeedbackCheck(name, email, message)
           done == <<"Thank you for your message, ">> \o name
                   \o <<"! We will get back to you soon.">>
       IN  IF failed # Null
           THEN /\ last' = Ran("feedback", FALSE, showCustomAlert(<<>>, failed))
                /\ form' = f
                /\ UNCHANGED <<localStorage, fallback, written>>
           ELSE \E timestamp \in Timestamps :
                LET customerData == [name |-> name, email |-> email, phone |-> phone,
                                     lastMessage |-> message, timestamp |-> timestamp]
                    customerText == StringifyCustomer(customerData)
                    put == setLocalItem("customerData", StrVal(customerText))
                IN  IF put.threw
                    THEN /\ last' = Ran("feedback", TRUE, <<>>)
                         /\ form' = f
                         /\ UNCHANGED <<localStorage, fallback, written>>
                    ELSE /\ localStorage' = put.real
                         /\ fallback' = WithLocal(put.fb)
                         /\ written' = [written EXCEPT !.local["customerData"] = customerText]
                         /\ last' = Ran("feedback", FALSE, showCustomAlert(<<>>, done))
                         /\ form' = [f EXCEPT !.message = <<>>]
    /\ UNCHANGED <<env, sessionStorage, useSession, useLocal, adds>>

\* the user submits the newsletter form as it stands
NewsletterSubmit == NewsletterHandler(form)

\* the user types email into the newsletter field and submits
NewsletterTypedSubmit(email) == NewsletterHandler([form EXCEPT !.newsletterEmail = email])

\* the user submits the feedback form as it stands
FeedbackSubmit == FeedbackHandler(form)

\* the user fills in the feedback form with the fields of t and submits
FeedbackTypedSubmit(t) ==
    FeedbackHandler([form EXCEPT !.name = t.name, !.email = t.email, !.phone = t.phone,
                                 !.message = t.message])

------------------------------------------------------------------------------
(* Page load and timers *)

NothingWritten == [session |-> EmptyStore, local |-> EmptyStore]

\* loadCustomerData(): the fields of a page whose durable store, read through
\* the adapter, gives customerData
LoadCustomerData(customerData) ==
    IF Truthy(customerData)
    THEN LET data == ParseCustomer(customerData)
         IN  [EmptyForm EXCEPT !.name = OrEmpty(data.name), !.email = OrEmpty(data.email),
                               !.phone = OrEmpty(data.phone)]
    ELSE EmptyForm

\* The script runs on a fresh document over session contents s and durable
\* contents l: both probes, a new fallback object, the form filled from the
\* stored customer data
PageLoad(s, l) ==
    /\ useSession' = isStorageAvailable(sessionMode)
    /\ useLocal' = isStorageAvailable(localMode)
    /\ sessionStorage' = AfterProbe(sessionMode, s)
    /\ localStorage' = AfterProbe(localMode, l)
    /\ fallback' = [_session |-> EmptyStore, _local |-> EmptyStore]
    /\ form' = LoadCustomerData(
                  AdapterGet(useLocal', localMode, localStorage', EmptyStore,
                             "customerData").value)
    /\ last' = Ran("load", FALSE, <<>>)
    /\ written' = NothingWritten

\* The page is loaded again: in the same tab (the session store is kept) or
\* in a new session (it starts empty)
OpenPage(newSession) ==
    /\ PageLoad(IF newSession THEN EmptyStore ELSE sessionStorage, localStorage)
    /\ adds' = IF newSession \/ ~useSession \/ ~useSession' THEN NoAdds ELSE adds
    /\ UNCHANGED env

------------------------------------------------------------------------------
(* The adapter called directly (window.cartStorage is public), and the browser *)

\* values a caller may hand to the adapter
CallValues == { StrVal(<<"v">>), NumVal(Num(7)) }

Called(op, r) == [handler |-> op, threw |-> r.threw, shown |-> <<>>, value |-> r.value]

\* a call on the session scope with outcome r
SessionCall(op, r) ==
    /\ sessionStorage' = r.real
    /\ fallback' = WithSession(r.fb)
    /\ last' = Called(op, r)
    /\ UNCHANGED <<env, localStorage, useSession, useLocal, form, adds, written>>

\* a call on the durable scope with outcome r
LocalCall(op, r) ==
    /\ localStorage' = r.real
    /\ fallback' = WithLocal(r.fb)
    /\ last' = Called(op, r)
    /\ UNCHANGED <<env, sessionStorage, useSession, useLocal, form, adds, written>>

CallSetSessionItem(key, value) == SessionCall("setSessionItem", setSessionItem(key, value))

CallGetSessionItem(key) == SessionCall("getSessionItem", getSessionItem(key))

CallRemoveSessionItem(key) == SessionCall("removeSessionItem", removeSessionItem(key))

CallClearSession == SessionCall("clearSession", clearSession)

CallSetLocalItem(key, value) == LocalCall("setLocalItem", setLocalItem(key, value))

CallGetLocalItem(key) == LocalCall("getLocalItem", getLocalItem(key))

CallRemoveLocalItem(key) == LocalCall("removeLocalItem", removeLocalItem(key))

\* The browser's store starts to answer differently while the page is open
\* (the quota fills up, the permission is withdrawn or given back)
StoreModeChanges ==
    /\ \E m \in Modes, scope \in {"session", "local"} :
          /\ sessionMode' = IF scope = "session" THEN m ELSE sessionMode
          /\ localMode' = IF scope = "local" THEN m ELSE localMode
    /\ UNCHANGED <<stores, useSession, useLocal, form, last, adds, written>>

------------------------------------------------------------------------------
(* Specifications *)

\* what the user types in the newsletter field
TypedEmails == { <<>>, <<"f">>, <<"a", "@", "b">>, <<" ", "@", "b">> }

\* what the user types in the feedback form
TypedFeedback ==
    { [name |-> <<"A", "l">>, email |-> <<"a", "@", "b">>, phone |-> <<"5">>,
       message |-> <<"h", "i">>],
      [name |-> <<"A", "l">>, email |-> <<" ", "a", "@", "b">>, phone |-> <<>>,
       message |-> <<" ">>],
      [name |-> <<>>, email |-> <<"f">>, phone |-> <<>>, message |-> <<"h", "i">>],
      [name |-> <<"A", "l">>, email |-> <<" ">>, phone |-> <<>>, message |-> <<>>],
      [name |-> <<"A", "l">>, email |-> <<"f", "@">>, phone |-> <<"5">>, message |-> <<>>] }

\* The page just loaded in a browser whose stores are empty, each store
\* answering in one of the modes of ms
Loaded(ms) ==
    /\ sessionMode \in ms
    /\ localMode \in ms
    /\ useSession = isStorageAvailable(sessionMode)
    /\ useLocal = isStorageAvailable(localMode)
    /\ sessionStorage = EmptyStore
    /\ localStorage = EmptyStore
    /\ fallback = [_session |-> EmptyStore, _local |-> EmptyStore]
    /\ last = Ran("load", FALSE, <<>>)
    /\ adds = NoAdds
    /\ written = NothingWritten

\* each store either works or refuses every call
Init == Loaded({"ok", "denied"}) /\ form = EmptyForm

\* The handlers of the page, its reload and its timers, in a browser whose
\* stores keep answering the way they did when the page was first opened
Next ==
    \/ \E b \in Buttons : AddToCart(b)
    \/ ViewCart
    \/ ClearCart
    \/ ProcessOrder
    \/ NewsletterSubmit
    \/ FeedbackSubmit
    \/ \E e \in TypedEmails : NewsletterTypedSubmit(e)
    \/ \E t \in TypedFeedback : FeedbackTypedSubmit(t)
    \/ \E newSession \in BOOLEAN : OpenPage(newSession)

Spec == Init /\ [][Next]_vars

\* Every e-mail text of at most MaxLen characters over a letter, "@" and a
\* blank, typed into both forms of a page whose other fields are filled in
Alphabet == {"a", "@", " "}

AllTexts == UNION { [1..k -> Alphabet] : k \in 0..MaxLen }

InitEmail ==
    /\ Loaded({"ok"})
    /\ \E e \in AllTexts :
          form = [newsletterEmail |-> e, name |-> <<"A", "l">>, email |-> e,
                  phone |-> <<>>, message |-> <<"h", "i">>]

NextEmail ==
    \/ NewsletterSubmit
    \/ FeedbackSubmit

SpecEmail == InitEmail /\ [][NextEmail]_vars

\* keys and values of the direct calls
CallKeys == {"note"}

\* The adapter called directly, in a browser whose stores may change the way
\* they answer while the page is open
NextAdapter ==
    \/ \E k \in CallKeys, v \in CallValues : CallSetSessionItem(k, v)
    \/ \E k \in CallKeys : CallGetSessionItem(k)
    \/ \E k \in CallKeys : CallRemoveSessionItem(k)
    \/ CallClearSession
    \/ \E k \in CallKeys, v \in CallValues : CallSetLocalItem(k, v)
    \/ \E k \in CallKeys : CallGetLocalItem(k)
    \/ \E k \in CallKeys : CallRemoveLocalItem(k)
    \/ StoreModeChanges
    \/ \E newSession \in BOOLEAN : OpenPage(newSession)

InitAdapter == Loaded(Modes) /\ form = EmptyForm

SpecAdapter == InitAdapter /\ [][NextAdapter]_vars

------------------------------------------------------------------------------
(* What the claims speak of *)

\* the stored cart and the stored customer record, as the adapter returns them
StoredCartText == getSessionItem("cartItems").value
StoredCart == CartOf(StoredCartText)
StoredCustomerText == getLocalItem("customerData").value

\* the one message the last handler showed, <<>> when it showed none
Shown == IF Len(last.shown) = 1 THEN last.shown[1] ELSE <<>>

\* sum of the quantities of the entries idx of a cart, in no particular order
RECURSIVE SumOfQuantitiesOver(_, _)
SumOfQuantitiesOver(cartItems, idx) ==
    IF idx = {} THEN 0
    ELSE LET i == CHOOSE j \in idx : TRUE
         IN  cartItems[i].quantity + SumOfQuantitiesOver(cartItems, idx \ {i})

\* sum of price * quantity over the entries idx of a cart
RECURSIVE SumOfPricesOver(_, _)
SumOfPricesOver(cartItems, idx) ==
    IF idx = {} THEN 0
    ELSE LET i == CHOOSE j \in idx : TRUE
         IN  (cartItems[i].price * cartItems[i].quantity) \div 1000
             + SumOfPricesOver(cartItems, idx \ {i})

SumOfQuantities(cartItems) == SumOfQuantitiesOver(cartItems, 1..Len(cartItems))
SumOfPrices(cartItems) == SumOfPricesOver(cartItems, 1..Len(cartItems))

\* text shows the amount x (in thousandths) to two decimal places: digits, a
\* point and two digits, no further from x than half a hundredth
ShowsToTwoDecimals(text, x) ==
    /\ Len(text) >= 4
    /\ text[Len(text) - 2] = "."
    /\ \A i \in (1..Len(text)) \ {Len(text) - 2} : IsDigit(text[i])
    /\ (Len(text) > 4 => text[1] # "0")
    /\ LET shown == ParseNum(text)
       IN  shown - x \in -5..5

\* number of "@" in s
CountAt(s) == Cardinality({i \in 1..Len(s) : s[i] = "@"})

\* exactly one "@", with text on both sides
OneAtWithTextAround(s) == CountAt(s) = 1 /\ s[1] # "@" /\ s[Len(s)] # "@"

NameMissing == <<"Please enter your name.">>
EmailMissing == { <<"Please enter an email address.">>, <<"Please enter your email address.">> }
EmailMalformed == { <<"Please include a \"@\" in the email address.">>,
                    <<"Please enter a valid email address.">> }
MessageMissing == <<"Please enter your issue/order information.">>
ValidationMessages == {NameMissing, MessageMissing} \cup EmailMissing \cup EmailMalformed

------------------------------------------------------------------------------
(* C1 *)

\* C1: an item that was absent and has since been added n >= 1 times, with no
\* clear or checkout in between and whatever else was added, is stored with
\* quantity exactly n; an item not added since is not stored.
C1_QuantityIsNumberOfAdds ==
    \A id \in ItemIds :
        IF adds[id] >= 1
        THEN /\ HasItem(StoredCart, id)
             /\ StoredCart[ItemIndex(StoredCart, id)].quantity = Num(adds[id])
             /\ Cardinality({i \in 1..Len(StoredCart) : StoredCart[i].id = id}) = 1
        ELSE ~HasItem(StoredCart, id)

\* an item added twice, with the other item added in between or around
C1_Witness ==
    /\ last.handler = "addToCart"
    /\ \E id \in ItemIds : adds[id] = 2 /\ \E other \in ItemIds \ {id} : adds[other] = 1

------------------------------------------------------------------------------
(* C2 *)

\* C2: a click on clear-cart with a cart that is not empty removes the cart
\* entry from the session store, and a view-cart click right after it reports
\* the empty cart; with an empty cart it says that there is nothing to clear
\* and leaves the session store as it was.
C2_ClearCart ==
    [][ /\ ClearCart =>
             IF StoredCart # <<>>
             THEN /\ StoredCartText' = Null
                  /\ last'.shown = << <<"Cart has been cleared!">> >>
                  /\ ~last'.threw
             ELSE /\ last'.shown = << <<"No items to clear">> >>
                  /\ UNCHANGED <<sessionStorage, localStorage, fallback>>
        /\ (last.handler = "clearCart" /\ ViewCart) =>
             last'.shown = << <<"Your cart is empty">> >>
      ]_vars

\* a cart that held something has just been cleared
C2_Witness ==
    /\ last.handler = "clearCart"
    /\ last.shown = << <<"Cart has been cleared!">> >>
    /\ StoredCartText = Null

------------------------------------------------------------------------------
(* C3 *)

\* C3: a click on process-order with a cart that is not empty confirms the
\* order of as many items as the quantities of the cart add up to (3 for two
\* of one item and one of another), and leaves the cart empty; with an empty
\* cart it says that there is nothing to order and changes nothing.
C3_ProcessOrder ==
    [][ ProcessOrder =>
          IF StoredCart # <<>>
          THEN /\ last'.shown = << <<"Order processed successfully! ">>
                                   \o NatText(SumOfQuantities(StoredCart) \div 1000)
                                   \o <<" item(s) ordered.">> >>
               /\ SumOfQuantities(StoredCart) % 1000 = 0
               /\ ~last'.threw
               /\ StoredCartText' = Null
               /\ StoredCart' = <<>>
          ELSE /\ last'.shown = << <<"No items in cart">> >>
               /\ UNCHANGED <<sessionStorage, localStorage, fallback>>
      ]_vars

\* an order of two of one item and one of another has just been confirmed
C3_Witness ==
    /\ last.handler = "processOrder"
    /\ last.shown = << <<"Order processed successfully! ", "3", " item(s) ordered.">> >>
    /\ StoredCart = <<>>

------------------------------------------------------------------------------
(* C4 *)

\* C4: no operation of the storage adapter ever throws, whatever the key and
\* the value and however the real store answers, also when a store that
\* passed the probe at startup starts to fail on a later call.
C4_AdapterNeverThrows == ~last.threw

------------------------------------------------------------------------------
(* C5 *)

\* C5: when the real session store and the real durable store throw on every
\* call, every cart and profile operation still completes (it shows its one
\* message, nothing is thrown) through the fallback and never through the real
\* stores; what a handler stored is what the adapter reads back until the page
\* is loaded again, and on a page just loaded the cart and the profile read as
\* absent.
C5_FallbackServesEveryOperation ==
    (sessionMode = "denied" /\ localMode = "denied") =>
        /\ ~last.threw
        /\ ~useSession /\ ~useLocal
        /\ sessionStorage = EmptyStore /\ localStorage = EmptyStore
        /\ last.handler # "load" => Len(last.shown) = 1
        /\ \A k \in Keys : /\ getSessionItem(k).value = written.session[k]
                           /\ getLocalItem(k).value = written.local[k]
        /\ last.handler = "load" =>
              /\ StoredCartText = Null
              /\ StoredCustomerText = Null
              /\ form = EmptyForm

\* both real stores refuse every call, and a cart and a profile are stored
C5_Witness ==
    /\ sessionMode = "denied" /\ localMode = "denied"
    /\ StoredCart # <<>>
    /\ StoredCustomerText # Null
    /\ ParseCustomer(StoredCustomerText).name = <<"A", "l">>

------------------------------------------------------------------------------
(* C6 *)

\* the feedback form was submitted last and the submission was refused
FeedbackRefused == last.handler = "feedback" /\ Shown \in ValidationMessages

NewsletterRefused == last.handler = "newsletter" /\ Shown \in ValidationMessages

\* the e-mail is there and is not one "@" with text around it
Malformed(email) == email # <<>> /\ ~OneAtWithTextAround(email)

\* C6 as stated: in both forms every presence check comes before any check of
\* the e-mail's shape, so a submission with a missing required field (name,
\* e-mail or message) and a malformed e-mail shows the message of the missing
\* field.
C6_PresenceBeforeShape ==
    /\ (FeedbackRefused /\ Malformed(Trim(form.email))) =>
          /\ Trim(form.name) = <<>> => Shown = NameMissing
          /\ (Trim(form.name) # <<>> /\ Trim(form.message) = <<>>) => Shown = MessageMissing
    /\ NewsletterRefused =>
          (Trim(form.newsletterEmail) = <<>> <=> Shown \in EmailMissing)

\* C6 as the handlers have it: the checks run in the order of the fields. In
\* the feedback form: name there, e-mail there, e-mail has an "@", e-mail is
\* one "@" with text around it, message there; in the newsletter form the
\* three checks of the e-mail. The message shown is that of the first check
\* that fails, so a missing name or e-mail is reported before the e-mail's
\* shape, and a missing message only once the e-mail is well formed.
C6_ChecksInFieldOrder ==
    /\ FeedbackRefused =>
          LET name == Trim(form.name)
              email == Trim(form.email)
              message == Trim(form.message)
          IN  IF name = <<>> THEN Shown = NameMissing
              ELSE IF email = <<>> THEN Shown \in EmailMissing
              ELSE IF Malformed(email) THEN Shown \in EmailMalformed
              ELSE message = <<>> /\ Shown = MessageMissing
    /\ NewsletterRefused =>
          LET email == Trim(form.newsletterEmail)
          IN  IF email = <<>> THEN Shown \in EmailMissing
              ELSE Malformed(email) /\ Shown \in EmailMalformed

\* a feedback submission with a malformed e-mail and no message was refused
\* with the message about the e-mail
C6_Witness ==
    /\ FeedbackRefused
    /\ Trim(form.name) # <<>>
    /\ Malformed(Trim(form.email))
    /\ Trim(form.message) = <<>>
    /\ Shown \in EmailMalformed

------------------------------------------------------------------------------
(* C7 *)

\* the fields f of the feedback form, or the newsletter field, break a rule
FeedbackInvalid(f) ==
    \/ Trim(f.name) = <<>>
    \/ ~OneAtWithTextAround(Trim(f.email))
    \/ Trim(f.message) = <<>>

NewsletterInvalid(email) == ~OneAtWithTextAround(Trim(email))

\* the step showed one message of the validation, threw nothing, kept the
\* fields as submitted and left the session store, the durable store and the
\* fallback as they were
Aborted(submitted) ==
    /\ Len(last'.shown) = 1
    /\ last'.shown[1] \in ValidationMessages
    /\ ~last'.threw
    /\ form' = submitted
    /\ UNCHANGED <<sessionStorage, localStorage, fallback>>
    /\ StoredCartText' = StoredCartText
    /\ StoredCustomerText' = StoredCustomerText

\* C7: a submission of the feedback form or of the newsletter form that breaks
\* a validation rule shows exactly one message, is aborted, and leaves the
\* stored customer record and the stored cart as they were.
C7_FailedSubmitChangesNothing ==
    [][ /\ (FeedbackSubmit /\ FeedbackInvalid(form)) => Aborted(form)
        /\ \A t \in TypedFeedback :
              (FeedbackTypedSubmit(t) /\ FeedbackInvalid(t)) =>
                  Aborted([form EXCEPT !.name = t.name, !.email = t.email,
                                       !.phone = t.phone, !.message = t.message])
        /\ (NewsletterSubmit /\ NewsletterInvalid(form.newsletterEmail)) => Aborted(form)
        /\ \A e \in TypedEmails :
              (NewsletterTypedSubmit(e) /\ NewsletterInvalid(e)) =>
                  Aborted([form EXCEPT !.newsletterEmail = e])
      ]_vars

\* a feedback submission was refused while a cart and a customer record were
\* stored
C7_Witness ==
    /\ FeedbackRefused
    /\ StoredCart # <<>>
    /\ StoredCustomerText # Null

------------------------------------------------------------------------------
(* C8 *)

Foo == <<"f", "o", "o">>
FooAt == <<"f", "o", "o", "@">>
AtBar == <<"@", "b", "a", "r">>
AAtB == <<"a", "@", "b">>
TwoAts == <<"a", "@", "b", "@", "c">>

NewsletterAccepted ==
    /\ last.handler = "newsletter"
    /\ Shown # <<>>
    /\ Shown[1] = "You are now subscribed to our newsletter with email: "

\* C8: each form accepts a trimmed e-mail exactly when it holds one "@" with
\* text on both sides: "foo", "foo@", "@bar" and a text with two "@" are
\* refused, "a@b" is accepted, and the two forms agree on every e-mail.
C8_EmailAcceptedIffOneAt ==
    /\ NewsletterAccepted =>
          /\ OneAtWithTextAround(Tail(Shown))
          /\ Tail(Shown) = Trim(Tail(Shown))
          /\ form.newsletterEmail = <<>>
    /\ NewsletterRefused => ~OneAtWithTextAround(Trim(form.newsletterEmail))
    /\ last.handler = "newsletter" => NewsletterAccepted \/ NewsletterRefused
    /\ (last.handler = "feedback" /\ Trim(form.name) # <<>>) =>
          (Shown \in EmailMissing \cup EmailMalformed
              <=> ~OneAtWithTextAround(Trim(form.email)))
    /\ (NewsletterCheck(Trim(form.email)) = Null)
          <=> (FeedbackCheck(<<"A", "l">>, Trim(form.email), <<"h", "i">>) = Null)
    /\ \A e \in {Foo, FooAt, AtBar, TwoAts} :
          /\ NewsletterCheck(e) \in EmailMalformed
          /\ FeedbackCheck(<<"A", "l">>, e, <<"h", "i">>) \in EmailMalformed
    /\ NewsletterCheck(AAtB) = Null
    /\ FeedbackCheck(<<"A", "l">>, AAtB, <<"h", "i">>) = Null

\* the newsletter form has just refused an e-mail with two "@" and text
\* before the first and after the last
C8_Witness ==
    /\ NewsletterRefused
    /\ LET email == Trim(form.newsletterEmail)
       IN  CountAt(email) = 2 /\ email[1] # "@" /\ email[Len(email)] # "@"

------------------------------------------------------------------------------
(* C9 *)

CartHeading == "Cart Contents:\n\n"
TotalMark == "\n\nTotal: $"
LineMark == ") - $"

\* the lines of a cart message, one per item
LinesOf(message) ==
    Split(SubSeq(message, 2, IndexOf(message, TotalMark, 1) - 1), "\n")

\* C9: after a click on view-cart with a cart that is not empty the message
\* ends with the sum over the items of price * quantity shown to two decimal
\* places, and has one line per item that ends with that item's price *
\* quantity shown to two decimal places; with an empty cart the message is
\* the empty-cart one.
C9_ViewCartTotals ==
    last.handler = "viewCart" =>
        IF StoredCart = <<>> THEN last.shown = << <<"Your cart is empty">> >>
        ELSE /\ Len(last.shown) = 1
             /\ Shown[1] = CartHeading
             /\ Cardinality({i \in 1..Len(Shown) : Shown[i] = TotalMark}) = 1
             /\ ShowsToTwoDecimals(
                    SubSeq(Shown, IndexOf(Shown, TotalMark, 1) + 1, Len(Shown)),
                    SumOfPrices(StoredCart))
             /\ Len(LinesOf(Shown)) = Len(StoredCart)
             /\ \A i \in 1..Len(StoredCart) :
                   LET line == LinesOf(Shown)[i]
                       mark == IndexOf(line, LineMark, 1)
                   IN  /\ mark <= Len(line)
                       /\ SubSeq(line, 1, Len(StoredCart[i].name)) = StoredCart[i].name
                       /\ ShowsToTwoDecimals(
                              SubSeq(line, mark + 1, Len(line)),
                              (StoredCart[i].price * StoredCart[i].quantity) \div 1000)

\* the cart with two of the item at 0.334 and one at 1.25 has just been shown:
\* 0.668 is shown as 0.67 and the total 1.918 as 1.92
C9_Witness ==
    /\ last.handler = "viewCart"
    /\ Len(StoredCart) = 2
    /\ SumOfPrices(StoredCart) = 1918
    /\ SubSeq(Shown, Len(Shown) - 4, Len(Shown)) = <<TotalMark, "1", ".", "9", "2">>

------------------------------------------------------------------------------
(* C10 *)

\* C10: every entry of the stored cart has a whole quantity of at least 1,
\* and a clear or a checkout that went through leaves no cart entry in the
\* store rather than entries with quantity 0 or an empty object.
C10_QuantitiesAtLeastOne ==
    /\ \A i \in 1..Len(StoredCart) :
          /\ StoredCart[i].quantity >= Num(1)
          /\ StoredCart[i].quantity % 1000 = 0
    /\ StoredCartText # Null => StoredCart # <<>>
    /\ (last.handler \in {"clearCart", "processOrder"}
          /\ Shown \notin { <<"No items to clear">>, <<"No items in cart">> }) =>
          StoredCartText = Null

\* the stored cart holds two items, one of them with quantity 2
C10_Witness ==
    /\ \E i \in 1..Len(StoredCart) : StoredCart[i].quantity = Num(2)
    /\ Len(StoredCart) = 2

====




